---- MODULE Spec2Model ----
(***************************************************************************)
(* A model of pycccedict's CcCedict (src/pycccedict/cccedict.py): the      *)
(* CC-CEDICT line parser, the store built from the data file, its lookup   *)
(* methods and the download-and-replace of the data file.                  *)
(*                                                                         *)
(* A Python str is a sequence of one-character strings.  An Optional value *)
(* is a sequence of length 0 (None) or 1 (the value).  Positions kept in   *)
(* the two indexes are 0-based, as in the code; entries[i + 1] reads the   *)
(* entry at position i.                                                    *)
(***************************************************************************)
EXTENDS Integers, Sequences, FiniteSets, TLC

VARIABLES
    dataFile,              \* the lines of the file at DATA_PATH
    tmpFile,               \* None, or Some(the lines of the file at TMP_PATH)
    remote,                \* the lines of the file served at DATA_URL
    file,                  \* the lines of the stream __init__ opened
    pos,                   \* how many lines of file the loop has consumed
    pc,                    \* "loading", "raised" (__init__ raised), "ready"
    entries,               \* self.entries
    simplified_to_index,   \* self.simplified_to_index
    traditional_to_index,  \* self.traditional_to_index
    i,                     \* the counter i of _parse_file
    data_datetime,         \* self._data_datetime
    ret                    \* the outcome of the last call on the instance

store == <<entries, simplified_to_index, traditional_to_index, i, data_datetime>>

disk == <<dataFile, tmpFile, remote>>

vars == <<dataFile, tmpFile, remote, file, pos, pc,
          entries, simplified_to_index, traditional_to_index, i,
          data_datetime, ret>>

None == << >>

Some(v) == <<v>>

(***************************************************************************)
(* str primitives                                                          *)
(***************************************************************************)
Whitespace == {" ", "\n"}

Min(a, b) == IF a <= b THEN a ELSE b

\* s[from:]  (0-based start, as a Python slice)
SliceFrom(s, from) == SubSeq(s, Min(from, Len(s)) + 1, Len(s))

\* s[:-1]: everything but the last character; '' stays ''
DropLast(s) == SubSeq(s, 1, Len(s) - 1)

\* s.startswith(p)
StartsWith(s, p) == Len(s) >= Len(p) /\ SubSeq(s, 1, Len(p)) = p

\* number of leading characters of s that are in cs
RECURSIVE LeadCount(_, _)
LeadCount(s, cs) ==
    IF s # << >> /\ Head(s) \in cs THEN 1 + LeadCount(Tail(s), cs) ELSE 0

\* number of trailing characters of s that are in cs
RECURSIVE TrailCount(_, _)
TrailCount(s, cs) ==
    IF s # << >> /\ s[Len(s)] \in cs
    THEN 1 + TrailCount(SubSeq(s, 1, Len(s) - 1), cs)
    ELSE 0

\* s.rstrip(chars): every trailing character that is in cs is removed
Rstrip(s, cs) == SubSeq(s, 1, Len(s) - TrailCount(s, cs))

\* s.strip()
Strip(s) ==
    LET r == Rstrip(s, Whitespace)
    IN  SubSeq(r, LeadCount(r, Whitespace) + 1, Len(r))

\* 0 when c is not in s, else the 1-based position of its first occurrence
RECURSIVE Find(_, _)
Find(s, c) ==
    IF s = << >> THEN 0
    ELSE IF Head(s) = c THEN 1
    ELSE LET k == Find(Tail(s), c) IN IF k = 0 THEN 0 ELSE k + 1

\* s.split(c, maxsplit=1)
SplitFirst(s, c) ==
    LET k == Find(s, c)
    IN  IF k = 0 THEN <<s>>
        ELSE <<SubSeq(s, 1, k - 1), SubSeq(s, k + 1, Len(s))>>

\* s.split(c)
RECURSIVE Split(_, _)
Split(s, c) ==
    LET k == Find(s, c)
    IN  IF k = 0 THEN <<s>>
        ELSE <<SubSeq(s, 1, k - 1)>> \o Split(SubSeq(s, k + 1, Len(s)), c)

\* s.split(): the maximal runs of non-whitespace characters
RECURSIVE SplitWs(_)
SplitWs(s) ==
    LET t == SubSeq(s, LeadCount(s, Whitespace) + 1, Len(s))
        n == LeadCount(t, {t[j] : j \in 1..Len(t)} \ Whitespace)
    IN  IF t = << >> THEN << >>
        ELSE <<SubSeq(t, 1, n)>> \o SplitWs(SubSeq(t, n + 1, Len(t)))

\* [x for part in parts for x in part]
RECURSIVE Flatten(_)
Flatten(parts) ==
    IF parts = << >> THEN << >> ELSE Head(parts) \o Flatten(Tail(parts))

(***************************************************************************)
(* datetime: strptime(text, "%Y-%m-%dT%H:%M:%SZ"), subtraction and .days   *)
(***************************************************************************)
Digits == <<"0", "1", "2", "3", "4", "5", "6", "7", "8", "9">>

IsDigits(s) ==
    \A n \in 1..Len(s) : \E d \in 1..Len(Digits) : Digits[d] = s[n]

DigitVal(c) == (CHOOSE d \in 1..Len(Digits) : Digits[d] = c) - 1

RECURSIVE ToInt(_)
ToInt(s) ==
    IF s = << >> THEN 0
    ELSE 10 * ToInt(SubSeq(s, 1, Len(s) - 1)) + DigitVal(s[Len(s)])

IsLeap(y) == y % 4 = 0 /\ (y % 100 # 0 \/ y % 400 = 0)

DaysInMonth(y, m) ==
    IF m = 2 THEN (IF IsLeap(y) THEN 29 ELSE 28)
    ELSE IF m \in {4, 6, 9, 11} THEN 30 ELSE 31

RECURSIVE DaysBeforeMonth(_, _)
DaysBeforeMonth(y, m) ==
    IF m = 1 THEN 0 ELSE DaysBeforeMonth(y, m - 1) + DaysInMonth(y, m - 1)

\* the proleptic Gregorian ordinal of a date (1 for 0001-01-01)
ToOrdinal(dt) ==
    LET y == dt.year - 1
    IN  y * 365 + (y \div 4) - (y \div 100) + (y \div 400)
          + DaysBeforeMonth(dt.year, dt.month) + dt.day

SecondOfDay(dt) == dt.hour * 3600 + dt.minute * 60 + dt.second

\* (a - b).days: a timedelta is normalised with 0 <= seconds < 86400, so
\* days is the floor of the difference in days
DeltaDays(a, b) ==
    (ToOrdinal(a) - ToOrdinal(b))
      + ((SecondOfDay(a) - SecondOfDay(b)) \div (24 * 3600))

\* the digit runs the directives of the format accept, by length and value
FieldOk(s, minLen, maxLen, lo, hi) ==
    /\ Len(s) >= minLen /\ Len(s) <= maxLen
    /\ IsDigits(s)
    /\ ToInt(s) >= lo /\ ToInt(s) <= hi

\* %d also accepts a space in place of a leading zero
DayField(s) == IF Len(s) = 2 /\ s[1] = " " THEN <<s[2]>> ELSE s

\* datetime.strptime(text, "%Y-%m-%dT%H:%M:%SZ"): Some(datetime), or None
\* where it raises ValueError.  Each field is followed by a literal
\* separator that is no digit, so the fields are the digit runs between the
\* separators.
Strptime(text) ==
    LET p1 == SplitFirst(text, "-")
        p2 == SplitFirst(p1[2], "-")
        p3 == SplitFirst(p2[2], "T")
        p4 == SplitFirst(p3[2], ":")
        p5 == SplitFirst(p4[2], ":")
        dd == DayField(p3[1])
        ss == DropLast(p5[2])
    IN  IF /\ Len(p1) = 2 /\ Len(p2) = 2 /\ Len(p3) = 2
           /\ Len(p4) = 2 /\ Len(p5) = 2
           /\ p5[2] # << >> /\ p5[2][Len(p5[2])] = "Z"
           /\ FieldOk(p1[1], 4, 4, 1, 9999)
           /\ FieldOk(p2[1], 1, 2, 1, 12)
           /\ FieldOk(dd, 1, 2, 1, 31)
           /\ FieldOk(p4[1], 1, 2, 0, 23)
           /\ FieldOk(p5[1], 1, 2, 0, 59)
           /\ FieldOk(ss, 1, 2, 0, 59)
           /\ ToInt(dd) <= DaysInMonth(ToInt(p1[1]), ToInt(p2[1]))
        THEN Some([year |-> ToInt(p1[1]), month |-> ToInt(p2[1]),
                   day |-> ToInt(dd), hour |-> ToInt(p4[1]),
                   minute |-> ToInt(p5[1]), second |-> ToInt(ss)])
        ELSE None

(***************************************************************************)
(* _parse_line                                                             *)
(***************************************************************************)
DATE_TAG == <<"#", "!", " ", "d", "a", "t", "e", "=">>

\* a line that starts with '#' and carries no date: _parse_line returns None
Skipped == [kind |-> "comment", entry |-> None, datetime |-> None]

\* the ValueError caught in _parse_line and the line passed over
RaisedAndSwallowed == [kind |-> "comment", entry |-> None, datetime |-> None]

\* a ValueError leaves _parse_line, _parse_file and __init__
Raised == [kind |-> "error", entry |-> None, datetime |-> None]

\* the removal of one trailing '/' at most
StripOneTrailingSlash(line) ==
    IF line # << >> /\ line[Len(line)] = "/" THEN DropLast(line) ELSE line

\* line.rstrip('/')
StripTrailingSlash(line) == Rstrip(line, {"/"})

\* the removal of a final ']' only
RemoveBracketIfPresent(pinyin) ==
    IF pinyin # << >> /\ pinyin[Len(pinyin)] = "]" THEN DropLast(pinyin) ELSE pinyin

\* pinyin[:-1]
RemoveBracket(pinyin) == DropLast(pinyin)

\* [sense.split(';') for sense in senses], flattened
Definitions(english) ==
    LET senses == Split(english, "/")
        glosses == [n \in 1..Len(senses) |-> Split(senses[n], ";")]
    IN  Flatten(glosses)

\* the branch of a line that starts with '#'
ParseComment(line) ==
    IF StartsWith(line, DATE_TAG)
    THEN LET t == Strptime(Strip(SliceFrom(line, Len(DATE_TAG))))
         IN  IF t = None THEN Raised
             ELSE [kind |-> "date", entry |-> None, datetime |-> t]
    ELSE Skipped

\* the dictionary line: a two-target unpacking of a list whose length is
\* not 2 raises ValueError
ParseEntry(line) ==
    LET stripped == StripTrailingSlash(Strip(line))
        ce == SplitFirst(stripped, "/")
        chinese == Strip(ce[1])
        tp == Split(chinese, "[")
        ts == SplitWs(Strip(tp[1]))
    IN  IF Len(ce) # 2 THEN Raised
        ELSE IF Len(tp) # 2 THEN Raised
        ELSE IF Len(ts) # 2 THEN Raised
        ELSE [kind |-> "entry",
              entry |-> Some([traditional |-> ts[1],
                              simplified |-> ts[2],
                              pinyin |-> RemoveBracket(tp[2]),
                              definitions |-> Definitions(ce[2])]),
              datetime |-> None]

ParseLine(line) ==
    IF StartsWith(line, <<"#">>) THEN ParseComment(line) ELSE ParseEntry(line)

(***************************************************************************)
(* _parse_file, one line per step                                          *)
(***************************************************************************)
\* d[k] = v on a dict
Put(d, k, v) == [x \in (DOMAIN d) \cup {k} |-> IF x = k THEN v ELSE d[x]]

\* the loop body with setdefault in place of the assignments
AddEntryKeepFirst(st, entry) ==
    [st EXCEPT
        !.entries = Append(st.entries, entry),
        !.simplified_to_index =
            IF entry.simplified \in DOMAIN st.simplified_to_index
            THEN st.simplified_to_index
            ELSE Put(st.simplified_to_index, entry.simplified, st.i),
        !.traditional_to_index =
            IF entry.traditional \in DOMAIN st.traditional_to_index
            THEN st.traditional_to_index
            ELSE Put(st.traditional_to_index, entry.traditional, st.i),
        !.i = st.i + 1]

\* the loop body with i += 1 moved before the two assignments
AddEntryOffByOne(st, entry) ==
    [st EXCEPT
        !.entries = Append(st.entries, entry),
        !.simplified_to_index =
            Put(st.simplified_to_index, entry.simplified, st.i + 1),
        !.traditional_to_index =
            Put(st.traditional_to_index, entry.traditional, st.i + 1),
        !.i = st.i + 1]

\* the body of the loop for a parsed entry (lines 143-150)
AddEntry(st, entry) ==
    [st EXCEPT
        !.entries = Append(st.entries, entry),
        !.simplified_to_index =
            Put(st.simplified_to_index, entry.simplified, st.i),
        !.traditional_to_index =
            Put(st.traditional_to_index, entry.traditional, st.i),
        !.i = st.i + 1]

\* the instance as lines 17 and 132-135 leave it
Fresh ==
    [pc |-> "loading", entries |-> << >>, simplified_to_index |-> << >>,
     traditional_to_index |-> << >>, i |-> 0, data_datetime |-> None]

\* one turn of the loop of _parse_file on the instance st
ParseFileLine(st, line) ==
    LET r == ParseLine(line)
    IN  CASE r.kind = "error" -> [st EXCEPT !.pc = "raised"]
          [] r.kind = "date" -> [st EXCEPT !.data_datetime = r.datetime]
          [] r.kind = "entry" -> AddEntry(st, r.entry[1])
          [] OTHER -> st

\* _parse_file on the instance st, to its return or its ValueError
RECURSIVE ParseFile(_, _)
ParseFile(st, lines) ==
    IF lines = << >> THEN [st EXCEPT !.pc = "ready"]
    ELSE LET nx == ParseFileLine(st, Head(lines))
         IN  IF nx.pc = "raised" THEN nx ELSE ParseFile(nx, Tail(lines))

\* the instance as a record
Self ==
    [pc |-> pc, entries |-> entries,
     simplified_to_index |-> simplified_to_index,
     traditional_to_index |-> traditional_to_index,
     i |-> i, data_datetime |-> data_datetime]

\* self becomes st
Becomes(st) ==
    /\ pc' = st.pc
    /\ entries' = st.entries
    /\ simplified_to_index' = st.simplified_to_index
    /\ traditional_to_index' = st.traditional_to_index
    /\ i' = st.i
    /\ data_datetime' = st.data_datetime

\* __init__ has opened the stream on lines
Opened(lines) ==
    /\ file = lines
    /\ pos = 0
    /\ pc = Fresh.pc
    /\ entries = Fresh.entries
    /\ simplified_to_index = Fresh.simplified_to_index
    /\ traditional_to_index = Fresh.traditional_to_index
    /\ i = Fresh.i
    /\ data_datetime = Fresh.data_datetime

ParseFileStep ==
    /\ pc = "loading"
    /\ pos < Len(file)
    /\ pos' = pos + 1
    /\ Becomes(ParseFileLine(Self, file[pos + 1]))
    /\ UNCHANGED <<file, ret, disk>>

\* the stream is exhausted: _parse_file and __init__ return
ParseFileDone ==
    /\ pc = "loading"
    /\ pos = Len(file)
    /\ pc' = "ready"
    /\ UNCHANGED <<file, pos, ret, store, disk>>

(***************************************************************************)
(* the getters                                                             *)
(***************************************************************************)
NoCall == [op |-> "none", arg |-> None, raised |-> FALSE, val |-> None]

\* get_entry with the two checks in the other order
GetEntryTraditionalFirst(chinese) ==
    IF chinese \in DOMAIN traditional_to_index
    THEN Some(entries[traditional_to_index[chinese] + 1])
    ELSE IF chinese \in DOMAIN simplified_to_index
    THEN Some(entries[simplified_to_index[chinese] + 1])
    ELSE None

\* get_entry without its second check
GetEntrySimplifiedOnly(chinese) ==
    IF chinese \in DOMAIN simplified_to_index
    THEN Some(entries[simplified_to_index[chinese] + 1])
    ELSE None

GetEntry(chinese) ==
    IF chinese \in DOMAIN simplified_to_index
    THEN Some(entries[simplified_to_index[chinese] + 1])
    ELSE IF chinese \in DOMAIN traditional_to_index
    THEN Some(entries[traditional_to_index[chinese] + 1])
    ELSE None

GetField(field, chinese) ==
    LET entry == GetEntry(chinese)
    IN  IF entry = None THEN None ELSE Some(entry[1][field])

\* get_data_days_old with 0 for a missing timestamp
GetDataDaysOldDefault(now) ==
    IF data_datetime = None
    THEN [raised |-> FALSE, val |-> Some(0)]
    ELSE [raised |-> FALSE, val |-> Some(DeltaDays(now, data_datetime[1]))]

\* [raised |-> TRUE] is the ValueError of line 34
GetDataDaysOld(now) ==
    IF data_datetime = None
    THEN [raised |-> TRUE, val |-> None]
    ELSE [raised |-> FALSE, val |-> Some(DeltaDays(now, data_datetime[1]))]

(***************************************************************************)
(* update_cedict                                                           *)
(***************************************************************************)
\* The steps that can fail: requests.get, raise_for_status, open(TMP_PATH),
\* the next chunk of iter_content, file.write, shutil.move.
FailPoints == {"none", "get", "status", "open", "read", "write", "move"}

\* what the failing step raises
ExceptionAt(failAt) ==
    IF failAt \in {"get", "status", "read"} THEN "RequestException" ELSE "IOError"

\* the except clauses of lines 75 and 77
Caught == {"RequestException", "IOError"}

\* update_cedict writing the chunks to DATA_PATH itself
UpdateCedictInPlace(data, tmp, content, failAt, written, unlinkOk) ==
    IF failAt = "none"
    THEN [dataFile |-> content, tmpFile |-> tmp,
          raised |-> FALSE, val |-> Some(TRUE)]
    ELSE [dataFile |-> CASE failAt \in {"get", "status", "open"} -> data
                         [] failAt \in {"read", "write"} -> SubSeq(content, 1, written)
                         [] OTHER -> content,
          tmpFile |-> tmp,
          raised |-> FALSE, val |-> Some(FALSE)]

\* update_cedict as a whole.  content: the lines the server sends, one
\* chunk each; written: the chunks in TMP_PATH when a chunk fails;
\* unlinkOk: whether TMP_PATH.unlink() of line 83 succeeds.  An exception
\* no except clause catches leaves update_cedict before line 80.  DATA_PATH and
\* TMP_PATH are in one directory (lines 8-9), and shutil.move is taken as
\* the rename it is there on a POSIX system: it replaces DATA_PATH whole or
\* raises and leaves both files alone.  (Where os.rename refuses an
\* existing destination, shutil.move copies instead; that is not modelled.)
UpdateCedictOutcome(data, tmp, content, failAt, written, unlinkOk) ==
    LET tmp1 == CASE failAt \in {"get", "status", "open"} -> tmp
                  [] failAt \in {"read", "write"} ->
                        Some(SubSeq(content, 1, written))
                  [] OTHER -> Some(content)
    IN  IF failAt = "none"
        THEN [dataFile |-> content, tmpFile |-> None,
              raised |-> FALSE, val |-> Some(TRUE)]
        ELSE IF ExceptionAt(failAt) \in Caught
        THEN [dataFile |-> data,
              tmpFile |-> IF tmp1 # None /\ unlinkOk THEN None ELSE tmp1,
              raised |-> FALSE, val |-> Some(FALSE)]
        ELSE [dataFile |-> data, tmpFile |-> tmp1,
              raised |-> TRUE, val |-> None]

\* update_cedict followed by _parse_file on the installed file
UpdateCedictReload ==
    /\ pc = "ready"
    /\ \E failAt \in FailPoints, written \in 0..Len(remote), unlinkOk \in BOOLEAN :
          LET out == UpdateCedictOutcome(dataFile, tmpFile, remote,
                                         failAt, written, unlinkOk)
          IN  /\ dataFile' = out.dataFile
              /\ tmpFile' = out.tmpFile
              /\ ret' = [op |-> "update_cedict",
                         arg |-> <<failAt, unlinkOk>>,
                         raised |-> out.raised, val |-> out.val]
              /\ Becomes(IF failAt = "none"
                         THEN [ParseFile(Fresh, out.dataFile) EXCEPT !.pc = "ready"]
                         ELSE Self)
    /\ UNCHANGED <<remote, file, pos>>

UpdateCedict ==
    /\ pc = "ready"
    /\ \E failAt \in FailPoints, written \in 0..Len(remote), unlinkOk \in BOOLEAN :
          LET out == UpdateCedictOutcome(dataFile, tmpFile, remote,
                                         failAt, written, unlinkOk)
          IN  /\ dataFile' = out.dataFile
              /\ tmpFile' = out.tmpFile
              /\ ret' = [op |-> "update_cedict",
                         arg |-> <<failAt, unlinkOk>>,
                         raised |-> out.raised, val |-> out.val]
    /\ UNCHANGED <<remote, file, pos, pc, store>>

(***************************************************************************)
(* the calls a holder of the instance makes                                *)
(***************************************************************************)
Fields == {"definitions", "pinyin", "simplified", "traditional"}

Headwords == {<<"a">>, <<"b">>, <<"c">>, <<"d">>}

\* the values datetime.utcnow() takes
NowSet ==
    {[year |-> 2024, month |-> 11, day |-> 29,
      hour |-> 2, minute |-> 6, second |-> 27],
     [year |-> 2024, month |-> 11, day |-> 18,
      hour |-> 0, minute |-> 0, second |-> 0],
     [year |-> 2025, month |-> 3, day |-> 1,
      hour |-> 0, minute |-> 0, second |-> 0]}

Call(r) ==
    /\ pc = "ready"
    /\ ret' = r
    /\ UNCHANGED <<file, pos, pc, store, disk>>

GetEntryCall ==
    \E chinese \in Headwords :
        Call([op |-> "get_entry", arg |-> <<chinese>>,
              raised |-> FALSE, val |-> GetEntry(chinese)])

\* get_definitions, get_pinyin, get_simplified, get_traditional
GetFieldCall ==
    \E field \in Fields, chinese \in Headwords :
        Call([op |-> "get_field", arg |-> <<field, chinese>>,
              raised |-> FALSE, val |-> GetField(field, chinese)])

GetEntriesCall ==
    Call([op |-> "get_entries", arg |-> None,
          raised |-> FALSE, val |-> Some(entries)])

GetDataDatetimeCall ==
    Call([op |-> "get_data_datetime", arg |-> None,
          raised |-> FALSE, val |-> data_datetime])

GetDataDaysOldCall ==
    \E now \in NowSet :
        LET r == GetDataDaysOld(now)
        IN  Call([op |-> "get_data_days_old", arg |-> <<now>>,
                  raised |-> r.raised, val |-> r.val])

\* CcCedict() once more, on the file now at DATA_PATH
NewInstance ==
    /\ pc \in {"ready", "raised"}
    /\ file' = dataFile
    /\ pos' = 0
    /\ Becomes(Fresh)
    /\ ret' = NoCall
    /\ UNCHANGED disk

\* the publisher puts another edition of the file at DATA_URL
Publish(edition) ==
    /\ remote # edition
    /\ remote' = edition
    /\ UNCHANGED <<dataFile, tmpFile, file, pos, pc, store, ret>>

(***************************************************************************)
(* the inputs                                                              *)
(***************************************************************************)
NL == <<"\n">>

LineAB == <<"a", " ", "b", " ", "[", "p", "]", " ", "/", "x", "/">> \o NL

LineBA == <<"b", " ", "a", " ", "[", "q", "]", " ", "/", "y", ";", "z", "/">> \o NL

LineCB == <<"c", " ", "b", " ", "[", "p", "]", "/", "x", "/", "y", "/", "/">> \o NL

LineNoBracket == <<"a", " ", "a", " ", "[", "p", "q", " ", "/", "x", "/">> \o NL

LineComment == <<"#", " ", "c">> \o NL

Stamp1 == <<"2", "0", "2", "4", "-", "1", "1", "-", "1", "8", "T",
            "2", "3", ":", "0", "6", ":", "2", "7", "Z">>

Stamp2 == <<"2", "0", "2", "4", "-", "0", "2", "-", "2", "8", "T",
            "2", "3", ":", "5", "9", ":", "5", "9", "Z">>

StampBad == <<"2", "0", "2", "4", "-", "1", "1", "-", "3", "1", "T",
              "2", "3", ":", "0", "6", ":", "2", "7", "Z">>

LineDate1 == DATE_TAG \o Stamp1 \o NL

LineDate2 == DATE_TAG \o Stamp2 \o NL

LineBadDate == DATE_TAG \o StampBad \o NL

LineNoSlash == <<"a", " ", "b", " ", "[", "p", "]">> \o NL

LineThreeTokens == <<"a", " ", "b", " ", "c", " ", "[", "p", "]", "/", "x", "/">> \o NL

\* an empty line of the file
LineBlank == NL

Pool == {LineAB, LineBA, LineCB, LineNoBracket, LineComment, LineDate1,
         LineDate2, LineBadDate, LineNoSlash, LineThreeTokens, LineBlank}

MaxLines == 3

Files == UNION {[1..n -> Pool] : n \in 0..MaxLines}

\* the editions the publisher serves in SpecUpdate
Editions == {<<LineDate1, LineAB>>,
             <<LineDate2, LineBA, LineCB>>,
             <<LineAB, LineNoSlash>>}

\* single lines for SpecParse: headwords, pinyin, glosses, trailing slashes
MaxTrail == 3

RECURSIVE Slashes(_)
Slashes(k) == IF k = 0 THEN << >> ELSE <<"/">> \o Slashes(k - 1)

HeadParts == {<<"a", " ", "b", " ">>, <<"a", " ", " ", "b">>,
              <<"a", " ">>, <<"a", " ", "b", " ", "c", " ">>}

PinyinParts == {<<"[", "p", "]">>, <<"[", "p", "]", " ">>, <<"[", "p", "q">>,
                <<"[">>, <<"p", "]">>, <<"[", "p", "[", "q", "]">>}

EnglishParts == {<< >>, <<"/", "x">>, <<"/", "x", ";", "y">>,
                 <<"/", "x", "/", "y", ";">>}

ParseLines ==
    {h \o p \o e \o Slashes(k) \o NL :
        h \in HeadParts, p \in PinyinParts, e \in EnglishParts, k \in 0..MaxTrail}

(***************************************************************************)
(* the specifications                                                      *)
(***************************************************************************)
\* Spec: CcCedict() on a data file of up to MaxLines lines, then getters
Init ==
    /\ dataFile \in Files
    /\ tmpFile = None
    /\ remote = dataFile
    /\ Opened(dataFile)
    /\ ret = NoCall

\* SpecParse: CcCedict() on a data file of one line
InitParse ==
    /\ dataFile \in {<<line>> : line \in ParseLines}
    /\ tmpFile = None
    /\ remote = dataFile
    /\ Opened(dataFile)
    /\ ret = NoCall

\* SpecUpdate: the instance, the files on disk and the server
InitUpdate ==
    /\ dataFile \in Editions
    /\ tmpFile = None
    /\ remote \in Editions
    /\ Opened(dataFile)
    /\ ret = NoCall

Next ==
    \/ ParseFileStep
    \/ ParseFileDone
    \/ GetEntryCall
    \/ GetFieldCall
    \/ GetEntriesCall
    \/ GetDataDatetimeCall
    \/ GetDataDaysOldCall

NextUpdate ==
    \/ Next
    \/ UpdateCedict
    \/ NewInstance
    \/ \E edition \in Editions : Publish(edition)

Spec == Init /\ [][Next]_vars

SpecParse == InitParse /\ [][Next]_vars

SpecUpdate == InitUpdate /\ [][NextUpdate]_vars

(***************************************************************************)
(* What the properties below speak of, read off the lines of the file      *)
(***************************************************************************)
IsCommentLine(line) == line # << >> /\ Head(line) = "#"

IsDataLine(line) == ~IsCommentLine(line)

IsDateLine(line) == StartsWith(line, DATE_TAG)

DataLines(f) == SelectSeq(f, IsDataLine)

DateLines(f) == SelectSeq(f, IsDateLine)

\* the entries of the lines of f, each line parsed on its own
RECURSIVE FileEntries(_)
FileEntries(f) ==
    IF f = << >> THEN << >>
    ELSE LET r == ParseLine(Head(f))
         IN  (IF r.kind = "entry" THEN r.entry ELSE << >>) \o FileEntries(Tail(f))

HasForm(es, field, h) == \E n \in 1..Len(es) : es[n][field] = h

\* the 1-based place of the last entry of es whose field is h
LastPos(es, field, h) ==
    CHOOSE n \in 1..Len(es) :
        /\ es[n][field] = h
        /\ \A m \in (n + 1)..Len(es) : es[m][field] # h

CountChar(s, c) == Cardinality({n \in 1..Len(s) : s[n] = c})

\* the text of s before the first c, all of s when it holds none
BeforeFirst(s, c) == IF Find(s, c) = 0 THEN s ELSE SubSeq(s, 1, Find(s, c) - 1)

\* the text of s after the first c
AfterFirst(s, c) == SubSeq(s, Find(s, c) + 1, Len(s))

\* how many whitespace-separated tokens s holds
TokenCount(s) ==
    Cardinality({n \in 1..Len(s) :
        s[n] \notin Whitespace /\ (n = 1 \/ s[n - 1] \in Whitespace)})

\* the timestamp text of a date line
StampOf(line) == Strip(SliceFrom(line, Len(DATE_TAG)))

\* the lines C4 names
BadLine(line) ==
    \/ /\ IsDataLine(line)
       /\ \/ CountChar(line, "/") = 0
          \/ TokenCount(BeforeFirst(BeforeFirst(line, "/"), "[")) # 2
    \/ /\ IsDateLine(line)
       /\ Strptime(StampOf(line)) = None

HasBadLine(f) == \E n \in 1..Len(f) : BadLine(f[n])

\* the minutes from 0001-01-01T00:00 to the minute of dt
EpochMinutes(dt) == (ToOrdinal(dt) - 1) * 24 * 60 + dt.hour * 60 + dt.minute

\* the seconds from the instant b to the instant a
SecondsBetween(a, b) ==
    (EpochMinutes(a) - EpochMinutes(b)) * 60 + (a.second - b.second)

(***************************************************************************)
(* C1                                                                      *)
(***************************************************************************)
\* C1 as stated: get_entry looks a headword up among the traditional forms
\* first and among the simplified forms only when no entry has it as its
\* traditional form; a headword that is the traditional form of X and the
\* simplified form of Y yields X.
C1_TraditionalFirst ==
    ret.op = "get_entry" =>
        LET h == ret.arg[1]
        IN  IF HasForm(entries, "traditional", h)
            THEN ret.val = Some(entries[LastPos(entries, "traditional", h)])
            ELSE IF HasForm(entries, "simplified", h)
            THEN ret.val = Some(entries[LastPos(entries, "simplified", h)])
            ELSE ret.val = None

\* C1 amended: get_entry looks a headword up among the simplified forms
\* first and among the traditional forms only when no entry has it as its
\* simplified form; a headword that is the traditional form of X and the
\* simplified form of Y yields Y.
C1_SimplifiedFirst ==
    ret.op = "get_entry" =>
        LET h == ret.arg[1]
        IN  IF HasForm(entries, "simplified", h)
            THEN ret.val = Some(entries[LastPos(entries, "simplified", h)])
            ELSE IF HasForm(entries, "traditional", h)
            THEN ret.val = Some(entries[LastPos(entries, "traditional", h)])
            ELSE ret.val = None

\* get_entry(h) has answered where h is the traditional form of one entry
\* and the simplified form of a different one
C1_Collision ==
    /\ ret.op = "get_entry"
    /\ HasForm(entries, "simplified", ret.arg[1])
    /\ HasForm(entries, "traditional", ret.arg[1])
    /\ entries[LastPos(entries, "simplified", ret.arg[1])]
         # entries[LastPos(entries, "traditional", ret.arg[1])]
    /\ ret.val = Some(entries[LastPos(entries, "simplified", ret.arg[1])])

(***************************************************************************)
(* C2                                                                      *)
(***************************************************************************)
\* C2: once the store is built, get_entry(h) for an h that is the
\* traditional or simplified form of a parsed entry returns a parsed entry
\* one of whose two forms is h (the only entry, in a store of one); for an
\* h that is a form of no parsed entry, get_entry and the four field
\* getters return None and do not raise.
C2_HitAndMiss ==
    ret.op \in {"get_entry", "get_field"} =>
        LET h == ret.arg[Len(ret.arg)]
            es == FileEntries(file)
            known == HasForm(es, "traditional", h) \/ HasForm(es, "simplified", h)
        IN  /\ ~ret.raised
            /\ ~known => ret.val = None
            /\ (known /\ ret.op = "get_entry") =>
                  /\ ret.val # None
                  /\ \E n \in 1..Len(es) : es[n] = ret.val[1]
                  /\ ret.val[1].traditional = h \/ ret.val[1].simplified = h
                  /\ Len(es) = 1 => ret.val = Some(es[1])
            /\ (known /\ ret.op = "get_field") =>
                  \E n \in 1..Len(es) :
                      /\ es[n].traditional = h \/ es[n].simplified = h
                      /\ ret.val = Some(es[n][ret.arg[1]])

\* get_entry has answered with the only entry of the store, asked by the
\* traditional form, which is not the simplified form
C2_SingleEntryByTraditional ==
    /\ ret.op = "get_entry"
    /\ Len(entries) = 1
    /\ entries[1].traditional = ret.arg[1]
    /\ entries[1].simplified # ret.arg[1]
    /\ ret.val = Some(entries[1])

(***************************************************************************)
(* C3                                                                      *)
(***************************************************************************)
\* C3: once the store is built, entries (and what get_entries returns)
\* holds one entry per line that is no comment, in file order, repeated
\* headwords included; each index has the forms of the entries as its keys
\* and maps a key to the position of the last entry with that form.
C3_AllEntriesLastWins ==
    pc = "ready" =>
        LET es == FileEntries(file)
        IN  /\ entries = es
            /\ Len(entries) = Len(DataLines(file))
            /\ ret.op = "get_entries" => ret.val = Some(es)
            /\ DOMAIN simplified_to_index = {es[n].simplified : n \in 1..Len(es)}
            /\ DOMAIN traditional_to_index = {es[n].traditional : n \in 1..Len(es)}
            /\ \A k \in DOMAIN simplified_to_index :
                  simplified_to_index[k] = LastPos(es, "simplified", k) - 1
            /\ \A k \in DOMAIN traditional_to_index :
                  traditional_to_index[k] = LastPos(es, "traditional", k) - 1

\* a built store in which two entries share their simplified form and
\* differ in the traditional one
C3_RepeatedSimplified ==
    /\ pc = "ready"
    /\ \E m, n \in 1..Len(entries) :
          /\ m < n
          /\ entries[m].simplified = entries[n].simplified
          /\ entries[m].traditional # entries[n].traditional
          /\ simplified_to_index[entries[n].simplified] = n - 1

(***************************************************************************)
(* C4                                                                      *)
(***************************************************************************)
\* C4: when the file holds a data line without '/', a data line whose
\* headword part is not two tokens, or a date line with a malformed
\* timestamp, __init__ does not return: the instance is never ready and
\* no call on it is ever answered.
C4_NoPartialStore ==
    HasBadLine(file) => (pc # "ready" /\ ret = NoCall)

\* __init__ has raised after entries of earlier lines were stored
C4_RaisedAfterEntries ==
    /\ pc = "raised"
    /\ HasBadLine(file)
    /\ entries # << >>

(***************************************************************************)
(* C7                                                                      *)
(***************************************************************************)
\* C7: get_data_days_old raises exactly when the file holds no date line,
\* and then returns no number; otherwise it returns the whole days (the
\* floor) between the timestamp of the last date line and now.
C7_DaysOld ==
    ret.op = "get_data_days_old" =>
        LET ds == DateLines(file)
        IN  /\ ret.raised <=> ds = << >>
            /\ ret.raised => ret.val = None
            /\ ~ret.raised =>
                  ret.val = Some(SecondsBetween(ret.arg[1],
                                                Strptime(StampOf(ds[Len(ds)]))[1])
                                 \div (24 * 3600))

\* get_data_days_old has answered 10 on a file with two different date
\* lines
C7_LastOfTwoDateLines ==
    /\ ret.op = "get_data_days_old"
    /\ Len(DateLines(file)) = 2
    /\ DateLines(file)[1] # DateLines(file)[2]
    /\ ret.val = Some(10)

(***************************************************************************)
(* C8                                                                      *)
(***************************************************************************)
\* C8: after every line of the build, each position kept in either index
\* is a position of entries, and the entry there has the key as its
\* simplified (traditional) form.
C8_IndexesValid ==
    /\ \A k \in DOMAIN simplified_to_index :
          /\ 0 <= simplified_to_index[k]
          /\ simplified_to_index[k] < Len(entries)
          /\ entries[simplified_to_index[k] + 1].simplified = k
    /\ \A k \in DOMAIN traditional_to_index :
          /\ 0 <= traditional_to_index[k]
          /\ traditional_to_index[k] < Len(entries)
          /\ entries[traditional_to_index[k] + 1].traditional = k

\* the build is under way with two entries stored and lines to come
C8_MidBuild ==
    /\ pc = "loading"
    /\ pos < Len(file)
    /\ Len(entries) >= 2

(***************************************************************************)
(* C9 and C10: one line, parsed                                            *)
(***************************************************************************)
\* the line of a file of one line, stripped of whitespace
TheLine == Strip(file[1])

\* how many '/' end the line
TrailingSlashes == TrailCount(TheLine, {"/"})

\* the line without the '/' that end it
Body == SubSeq(TheLine, 1, Len(TheLine) - TrailingSlashes)

\* the Chinese part: what precedes the first '/'
ChinesePart == Strip(BeforeFirst(TheLine, "/"))

\* the pinyin part: what follows the first '[' of the Chinese part
PinyinPart == AfterFirst(ChinesePart, "[")

\* the Chinese part holds two headwords and one '['
HeadOk ==
    /\ CountChar(ChinesePart, "[") = 1
    /\ TokenCount(BeforeFirst(ChinesePart, "[")) = 2

\* the one line of the file has been through _parse_line
OneLineParsed ==
    /\ Len(file) = 1
    /\ pos = 1
    /\ IsDataLine(file[1])

\* s cut at every '/' and every ';', in one pass
RECURSIVE Glosses(_)
Glosses(s) ==
    IF \E n \in 1..Len(s) : s[n] \in {"/", ";"}
    THEN LET k == CHOOSE n \in 1..Len(s) :
                    /\ s[n] \in {"/", ";"}
                    /\ \A m \in 1..(n - 1) : s[m] \notin {"/", ";"}
         IN  <<SubSeq(s, 1, k - 1)>> \o Glosses(SubSeq(s, k + 1, Len(s)))
    ELSE <<s>>

\* C9 as stated: of the k >= 2 slashes that end a line one is removed, and
\* the definitions end with k - 1 empty glosses.
C9_OneSlashStripped ==
    (OneLineParsed /\ HeadOk /\ TrailingSlashes >= 2) =>
        /\ Len(entries) = 1
        /\ LET d == entries[1].definitions
           IN  /\ Len(d) >= TrailingSlashes - 1
               /\ \A n \in (Len(d) - TrailingSlashes + 2)..Len(d) : d[n] = << >>

\* C9 amended: all the slashes that end a line are removed, however many;
\* none of them separates senses, so the definitions are the glosses of the
\* text between the first '/' and the slashes that end the line, and a line
\* left without any '/' fails to parse.
C9_AllSlashesStripped ==
    (OneLineParsed /\ HeadOk) =>
        IF CountChar(Body, "/") = 0
        THEN pc = "raised" /\ entries = << >>
        ELSE /\ pc # "raised"
             /\ Len(entries) = 1
             /\ entries[1].definitions = Glosses(AfterFirst(Body, "/"))

\* a line that ends in two slashes or more has given an entry with the
\* one definition x
C9_TrailingSlashesParsed ==
    /\ OneLineParsed
    /\ HeadOk
    /\ TrailingSlashes >= 2
    /\ pc = "ready"
    /\ Len(entries) = 1
    /\ entries[1].definitions = << <<"x">> >>

\* C10 as stated: a line whose pinyin part does not end with ']' makes
\* _parse_line raise, and no entry comes of it.
C10_MissingBracketRaises ==
    (/\ OneLineParsed
     /\ CountChar(ChinesePart, "[") >= 1
     /\ (PinyinPart = << >> \/ PinyinPart[Len(PinyinPart)] # "]")) =>
        (pc = "raised" /\ entries = << >>)

\* C10 amended: the last character of the pinyin part is dropped whatever
\* it is; a line that is well formed but for the missing ']' parses, and
\* the pinyin of its entry is the pinyin part without its last character.
C10_LastCharacterDropped ==
    (/\ OneLineParsed
     /\ HeadOk
     /\ CountChar(Body, "/") >= 1
     /\ (PinyinPart = << >> \/ PinyinPart[Len(PinyinPart)] # "]")) =>
        /\ pc # "raised"
        /\ Len(entries) = 1
        /\ entries[1].pinyin = SubSeq(PinyinPart, 1, Len(PinyinPart) - 1)

\* a line with the pinyin part "pq" has given an entry with the pinyin "p"
C10_EntryWithoutBracket ==
    /\ OneLineParsed
    /\ PinyinPart = <<"p", "q">>
    /\ pc = "ready"
    /\ Len(entries) = 1
    /\ entries[1].pinyin = <<"p">>

(***************************************************************************)
(* C5 and C6: update_cedict                                                *)
(***************************************************************************)
\* the step is a call of update_cedict
UpdateStep == pc = "ready" /\ ret'.op = "update_cedict" /\ remote' = remote

C6_ReloadedAfterUpdate ==
    (ret.op = "update_cedict" /\ ret.val = Some(TRUE)) =>
        Self = ParseFile(Fresh, dataFile)

\* C6 amended: an update_cedict that returns True has put the downloaded
\* file at DATA_PATH and left none at TMP_PATH, and has not run the build
\* again: the entries, the two indexes and the timestamp of the instance
\* are as before the call, those built from the file __init__ read.
C6_StoreKeptAfterUpdate ==
    [][(UpdateStep /\ ret'.val = Some(TRUE)) =>
          /\ dataFile' = remote
          /\ tmpFile' = None
          /\ UNCHANGED <<file, store>>
          /\ Self' = ParseFile(Fresh, file)]_vars

\* update_cedict has returned True and the instance still holds the
\* entries of the file it read, which are not those of the file installed
C6_StaleAfterUpdate ==
    /\ ret.op = "update_cedict"
    /\ ret.val = Some(TRUE)
    /\ dataFile = remote
    /\ entries = FileEntries(file)
    /\ entries # FileEntries(dataFile)

====
